---- MODULE Spec2Model ----
(***************************************************************************)
(* The journal record store of journalr: src/dataStore.ts (getEntry,       *)
(* saveEntry, getAllEntries, login, logout) over the browser's             *)
(* localStorage and the remote table journal_entries.                      *)
(*                                                                         *)
(* A text is a sequence of characters; only the distinction between        *)
(* whitespace and non-whitespace matters to the code (countWords), so a    *)
(* character is SP or CH.  Each call of the store is one action: the       *)
(* callers of the store await each call before the next one is issued.     *)
(*                                                                         *)
(* Further specifications over the same variables: SpecHistory (the        *)
(* editor's save and its word-count history), SpecStreak (calculateStreaks),*)
(* SpecDominant, SpecAnalyze and SpecCloud (the functions of the analysis  *)
(* view), SpecEditor (the editor's loads and its debounced save) and       *)
(* SpecOverlap (saveEntry calls whose upserts are pending together).       *)
(***************************************************************************)
EXTENDS Integers, Sequences, FiniteSets, TLC

----------------------------------------------------------------------------
(* Bounds and value domains *)

MaxWords == 2

\* the number of calls of the store in one behaviour
MaxCalls == 4

SP == " "
CH == "w"

Users == {"a@x", "b@x"}

DateKeys == {"2024-01-01", "2024-01-02"}

\* what localStorage.getItem yields for a key that is not stored; falsy
NoEmail == ""

\* null / undefined of a text-valued expression
Null == <<"null">>

EmptyText == <<>>

RECURSIVE Text(_)
Text(k) == IF k <= 1 THEN <<CH>> ELSE Text(k - 1) \o <<SP, CH>>

\* "", " ", "w", "w w", ...
Contents == {EmptyText, <<SP>>} \cup {Text(k) : k \in 1..MaxWords}

\* how a request to the remote store ends: answered by the store, answered
\* with an error object (network / service failure), or the promise rejects
RemoteOutcomes == {"ok", "error", "throw"}

EmptyIndex == [k \in {} |-> 0]

----------------------------------------------------------------------------
(* Pure helpers *)

RECURSIVE Runs(_, _)
Runs(text, inWord) ==
    IF text = <<>> THEN 0
    ELSE IF Head(text) = SP THEN Runs(Tail(text), FALSE)
    ELSE (IF inWord THEN 0 ELSE 1) + Runs(Tail(text), TRUE)

\* text.trim().split(/\s+/).filter(Boolean).length, 0 for a falsy text
countWords(text) ==
    IF text = Null \/ text = EmptyText THEN 0 ELSE Runs(text, FALSE)

\* the JavaScript idiom  x || ''
OrEmpty(x) == IF x = Null \/ x = EmptyText THEN EmptyText ELSE x

----------------------------------------------------------------------------
VARIABLES
    userEmail,   \* localStorage['userEmail'], NoEmail when not stored
    local,       \* localStorage['local-journal-entry-' + dateKey], Null when not stored
    remote,      \* rows of the table journal_entries
    last,        \* the call that completed last, with what it returned
    saved,       \* history: per date key, the most recent saveEntry
    since,       \* history: per date key, what happened after that saveEntry
    calls        \* history: the number of calls made so far

\* the editor of src/index.tsx (JournalView.saveEntry) and its history tracker
VARIABLES
    entry,         \* localStorage['journal-entry-' + dateKey], Null when not stored
    history,       \* localStorage['journal-history-' + dateKey]
    entries,       \* the React state `entries` of JournalView
    status,        \* the React state `status` of JournalView
    timerPending,  \* the setTimeout(() => setStatus('Saved'), 500) is pending
    clock,         \* Date.now() when the latest save or timer started
    hlast,         \* history: the latest JournalView.saveEntry
    hprev,         \* history: the JournalView.saveEntry before it
    hread,         \* history: the latest fetchHistory since the latest save
    cleared,       \* history: per date key, the samples that a clearing removed
    hsaves         \* history: the number of JournalView.saveEntry calls so far

\* calculateStreaks of src/index.tsx
VARIABLES
    entryKeys,     \* the argument: date keys, each the number of its UTC day
    tz,            \* the browser's offset from UTC in hours, before dstDay
    dst,           \* the change of that offset in hours on dstDay
    streaks,       \* the returned { currentStreak, longestStreak }
    spc            \* "input" before the call, "done" after it

\* the analysis view of src/index.tsx
VARIABLES
    categoryData,  \* the argument of getDominantCategory, as Object.entries lists it
    dominant,      \* what getDominantCategory returned
    entryContent,  \* the text passed to analyzeText, a sequence of characters
    analysis,      \* what analyzeText returned, one result per run
    cloudText,     \* the prop `text` of WordCloud, a sequence of characters
    words,         \* the memo `words` of WordCloud: { word, fontSize } in order
    vpc            \* "input" before the call of the function, "done" after it

\* the editor JournalView over the store of src/dataStore.ts
VARIABLES
    selectedDate,  \* the React state `selectedDate`, as its date key
    edText,        \* the React state `text`: what the textarea shows
    timeout,       \* the timer of debounce and the arguments it will pass on
    reads,         \* the getEntry calls of fetchEntry that have not returned
    nowMs,         \* the time in milliseconds
    typed,         \* history: per date key, the text typed last under it
    typedAt,       \* history: the time of the latest keystroke, -1 for none
    passed,        \* history: per date key, the text passed last to saveEntry
    loaded,        \* history: what the load of the latest selection returned
    edit,          \* history: the latest keystroke and what it was made on
    nSelects,      \* history: the number of selections of a date
    nEdits         \* history: the number of keystrokes

\* calls of dataStore.saveEntry that overlap
VARIABLES
    upserts,       \* the upsert requests that the remote store has not answered
    began          \* history: the saveEntry calls in the order they were made

storeVars == <<userEmail, local, remote, last, saved, since, calls>>

streakVars == <<entryKeys, tz, dst, streaks, spc>>

histVars == <<entry, history, entries, status, timerPending, clock,
              hlast, hprev, hread, cleared, hsaves>>

viewVars == <<categoryData, dominant, entryContent, analysis, cloudText, words, vpc>>

editorVars == <<selectedDate, edText, timeout, reads, nowMs, typed, typedAt,
                passed, loaded, edit, nSelects, nEdits>>

overlapVars == <<upserts, began>>

vars == <<storeVars, histVars, streakVars, viewVars, editorVars, overlapVars>>

\* has: a saveEntry of the key has run; c, ok, user: its content, whether its
\* upsert succeeded, who ran it; sole: no other user ever saved the key
NoSave == [has |-> FALSE, c |-> Null, ok |-> FALSE, user |-> NoEmail, sole |-> TRUE]

\* the record of a call: its arguments, the user it ran as, how its remote
\* request ended, what it returned (text, index) or raised (err), the cache
\* value of its date key when it started, and whether the remote store had
\* a row for the user and the date key when it started
Call(op, d, c, out, text, index, err, cached) ==
    [op |-> op, d |-> d, c |-> c, out |-> out, user |-> userEmail,
     text |-> text, index |-> index, err |-> err, cached |-> cached,
     stored |-> \E r \in remote : r.user_email = userEmail /\ r.date_key = d]

Count ==
    /\ calls < MaxCalls
    /\ calls' = calls + 1
    /\ UNCHANGED <<histVars, streakVars, viewVars, editorVars, overlapVars>>

\* new Date() of a call: a clock that advances from one call to the next
Now == calls + 1

\* the history of a date key after one more call:
\*   "fresh"      nothing has been called since the save
\*   "offline"    calls were made, none of them was answered by the remote store
\*   "online"     some call was answered by the remote store
\*   "refreshed"  a getEntry of this key was answered and rewrote the mirror
After(s, kind) ==
    IF s = "refreshed" \/ kind = "refreshed" THEN "refreshed"
    ELSE IF s = "online" \/ kind = "online" THEN "online"
    ELSE "offline"

Observe(touched, kind) ==
    [k \in DateKeys |->
        IF ~saved[k].has THEN "fresh"
        ELSE IF k = touched /\ kind = "refreshed" THEN "refreshed"
        ELSE After(since[k], IF kind = "refreshed" THEN "online" ELSE kind)]

\* a stored history: raw is "absent" (no item), "json" (the item parses to
\* samples) or "garbage" (the item does not parse)
Stored(raw, samples) == [raw |-> raw, samples |-> samples]

NoSaveYet == [op |-> "none", d |-> "-", text |-> Null, n |-> 0, failed |-> FALSE,
              before |-> Stored("absent", <<>>)]

NoRead == [d |-> "-", raised |-> FALSE, raw |-> "absent", value |-> <<>>]

\* the editor before its first save, with the histories h0 in localStorage
HistoryStart(h0) ==
    /\ entry = [k \in DateKeys |-> Null]
    /\ history = h0
    /\ entries = EmptyIndex
    /\ status = "Ready"
    /\ timerPending = FALSE
    /\ clock = 0
    /\ hlast = NoSaveYet
    /\ hprev = NoSaveYet
    /\ hread = NoRead
    /\ cleared = [k \in DateKeys |-> {}]
    /\ hsaves = 0

HistoryIdle == HistoryStart([k \in DateKeys |-> Stored("absent", <<>>)])

NoStreaks == [currentStreak |-> 0, longestStreak |-> 0]

NoTimeout == [pending |-> FALSE, date |-> "-", newText |-> Null, due |-> 0]

NoEdit == [d |-> "-", n |-> -1, base |-> Null, loaded |-> Null, settled |-> FALSE]

\* the editor not mounted
EditorIdle ==
    /\ selectedDate = "-"
    /\ edText = EmptyText
    /\ timeout = NoTimeout
    /\ reads = {}
    /\ nowMs = 0
    /\ typed = [k \in DateKeys |-> Null]
    /\ typedAt = -1
    /\ passed = [k \in DateKeys |-> Null]
    /\ loaded = Null
    /\ edit = NoEdit
    /\ nSelects = 0
    /\ nEdits = 0

\* no saveEntry under way
OverlapIdle ==
    /\ upserts = {}
    /\ began = <<>>

\* the analysis view not opened
ViewIdle ==
    /\ categoryData = <<>>
    /\ dominant = "-"
    /\ entryContent = <<>>
    /\ analysis = <<>>
    /\ cloudText = <<>>
    /\ words = <<>>
    /\ vpc = "idle"

\* calculateStreaks not called, on no keys
StreakIdle ==
    /\ entryKeys = <<>>
    /\ tz = 0
    /\ dst = 0
    /\ streaks = NoStreaks
    /\ spc = "idle"

StoreInit ==
    /\ userEmail \in Users \cup {NoEmail}
    /\ calls = 0
    /\ local = [k \in DateKeys |-> Null]
    /\ remote = {}
    /\ last = [op |-> "init", d |-> "-", c |-> Null, out |-> "none",
               user |-> userEmail, text |-> Null, index |-> EmptyIndex,
               err |-> "none", cached |-> Null, stored |-> FALSE]
    /\ saved = [k \in DateKeys |-> NoSave]
    /\ since = [k \in DateKeys |-> "fresh"]

Init ==
    StoreInit /\ HistoryIdle /\ StreakIdle /\ ViewIdle /\ EditorIdle /\ OverlapIdle

----------------------------------------------------------------------------
(* login / logout *)

Login(email) ==
    /\ Count
    /\ userEmail' = email
    /\ last' = Call("login", "-", Null, "none", Null, EmptyIndex, "none", Null)
    /\ since' = Observe("-", "offline")
    /\ UNCHANGED <<local, remote, saved>>

Logout ==
    /\ Count
    /\ userEmail' = NoEmail
    /\ last' = Call("logout", "-", Null, "none", Null, EmptyIndex, "none", Null)
    /\ since' = Observe("-", "offline")
    /\ UNCHANGED <<local, remote, saved>>

----------------------------------------------------------------------------
(* The remote table journal_entries, as the store uses it *)

\* `if (!email)`
NotAuthenticated(email) == email = NoEmail

RowsOf(email) == {r \in remote : r.user_email = email}

\* .select('content').eq('user_email', email).eq('date_key', dateKey).single():
\* exactly one matching row is the data, anything else is the error PGRST116
SelectSingle(email, d, out) ==
    LET rows == {r \in RowsOf(email) : r.date_key = d} IN
    IF out = "ok"
    THEN IF Cardinality(rows) = 1
         THEN [data |-> (CHOOSE r \in rows : TRUE).content, error |-> "none"]
         ELSE [data |-> Null, error |-> "PGRST116"]
    ELSE [data |-> Null, error |-> "FETCH"]

\* an insert that ignores the conflict key
UpsertAsInsert(rows, row) == rows \cup {row}

\* .upsert(row, { onConflict: 'user_email,date_key' })
Upsert(rows, row) ==
    {r \in rows : ~(r.user_email = row.user_email /\ r.date_key = row.date_key)}
        \cup {row}

----------------------------------------------------------------------------
(* getEntry *)

\* every error is thrown, "no row" included
GetEntryThrowsAnyError(resp) == resp.error # "none"

\* `if (error && error.code !== 'PGRST116') throw error`
GetEntryThrows(resp) == resp.error # "none" /\ resp.error # "PGRST116"

\* the try block: what it returns, or that it threw
GetEntryTry(email, d, out) ==
    IF out = "throw" THEN [thrown |-> TRUE, content |-> Null]
    ELSE LET resp == SelectSingle(email, d, out) IN
         IF GetEntryThrows(resp) THEN [thrown |-> TRUE, content |-> Null]
         ELSE [thrown |-> FALSE, content |-> OrEmpty(resp.data)]

\* a catch block that does not read the cache
GetEntryCatchNoCache(d) == EmptyText

\* the catch block
GetEntryCatch(d) == OrEmpty(local[d])

\* a read that does not refresh the mirror
GetEntryMirrorNoWrite(d, content) == local

\* localStorage.setItem(`${LOCAL_ENTRY_PREFIX}${dateKey}`, content) of getEntry
GetEntryMirror(d, content) == [local EXCEPT ![d] = content]

GetEntry(d, out) ==
    /\ Count
    /\ IF NotAuthenticated(userEmail)
       THEN /\ last' = Call("get", d, Null, "none", Null, EmptyIndex, "none",
                            local[d])
            /\ since' = Observe("-", "offline")
            /\ UNCHANGED <<userEmail, local, remote, saved>>
       ELSE LET try == GetEntryTry(userEmail, d, out) IN
            IF ~try.thrown
            THEN /\ local' = GetEntryMirror(d, try.content)
                 /\ last' = Call("get", d, Null, out, try.content, EmptyIndex,
                                 "none", local[d])
                 /\ since' = Observe(d, "refreshed")
                 /\ UNCHANGED <<userEmail, remote, saved>>
            ELSE /\ last' = Call("get", d, Null, out, GetEntryCatch(d), EmptyIndex,
                                 "none", local[d])
                 /\ since' = Observe("-", "offline")
                 /\ UNCHANGED <<userEmail, local, remote, saved>>

----------------------------------------------------------------------------
(* saveEntry *)

\* the try block: the rows afterwards, or that it threw
SaveEntryTry(email, d, content, out) ==
    IF out = "ok"
    THEN [thrown |-> FALSE,
          rows |-> Upsert(remote, [user_email |-> email, date_key |-> d,
                                   content |-> content,
                                   word_count |-> countWords(content),
                                   updated_at |-> Now])]
    ELSE [thrown |-> TRUE, rows |-> remote]

\* a catch block that rethrows
SaveEntryCatchRethrow(exc) == exc

\* the catch block logs the exception; nothing reaches the caller
SaveEntryCatch(exc) == "none"

\* a local write that appends to what is cached
SaveEntryLocalAppend(d, content) ==
    [local EXCEPT ![d] = OrEmpty(local[d]) \o content]

\* localStorage.setItem(`${LOCAL_ENTRY_PREFIX}${dateKey}`, content) of saveEntry
SaveEntryLocal(d, content) == [local EXCEPT ![d] = content]

\* a local write placed before the test of the identity
SaveEntryWriteFirst(d, content) == SaveEntryLocal(d, content)

\* the cache when `if (!email) throw new Error('Not logged in')` throws: the
\* test comes before the local write
SaveEntryRejected(d, content) == local

SaveEntry(d, content, out) ==
    /\ Count
    /\ IF NotAuthenticated(userEmail)
       THEN /\ last' = Call("save", d, content, "none", Null, EmptyIndex,
                            "NotLoggedIn", local[d])
            /\ since' = Observe("-", "offline")
            /\ local' = SaveEntryRejected(d, content)
            /\ UNCHANGED <<userEmail, remote, saved>>
       ELSE LET try == SaveEntryTry(userEmail, d, content, out) IN
            /\ local' = SaveEntryLocal(d, content)
            /\ remote' = try.rows
            /\ last' = Call("save", d, content, out, Null, EmptyIndex,
                            IF try.thrown THEN SaveEntryCatch("RemoteUnavailable")
                                          ELSE "none",
                            local[d])
            /\ saved' = [saved EXCEPT ![d] = [has |-> TRUE, c |-> content,
                                              ok |-> ~try.thrown, user |-> userEmail,
                                           sole |-> /\ saved[d].sole
                                                    /\ saved[d].has => saved[d].user = userEmail]]
            /\ since' = [Observe("-", IF try.thrown THEN "offline" ELSE "online")
                            EXCEPT ![d] = "fresh"]
            /\ UNCHANGED userEmail

----------------------------------------------------------------------------
(* getAllEntries *)

\* (data || []).forEach(r => map.set(r.date_key, r.word_count))
RemoteIndex(rows) ==
    [k \in {r.date_key : r \in rows} |->
        (CHOOSE r \in rows : r.date_key = k).word_count]

\* Object.keys(localStorage).filter(key => key.startsWith(LOCAL_ENTRY_PREFIX))
LocalKeys == {k \in DateKeys : local[k] # Null}

\* a merge that does not test the remote result
MergeCandidateAlways(map, k) == TRUE

\* `if (!map.has(dateKey))`
MergeCandidate(map, k) == k \notin DOMAIN map

\* no merge at all
MergeLocalNone(map) == map

\* the merge of the local entries that are not in the remote result
MergeLocal(map) ==
    LET add == {k \in LocalKeys : /\ MergeCandidate(map, k)
                                  /\ countWords(OrEmpty(local[k])) > 0} IN
    [k \in DOMAIN map \cup add |->
        IF k \in add THEN countWords(OrEmpty(local[k])) ELSE map[k]]

\* a local index that keeps the keys of empty content
LocalIndexUnfiltered ==
    [k \in LocalKeys |-> countWords(OrEmpty(local[k]))]

\* the catch block: local data only
LocalIndex ==
    [k \in {j \in LocalKeys : countWords(OrEmpty(local[j])) > 0} |->
        countWords(OrEmpty(local[k]))]

GetAllEntriesTry(email, out) ==
    IF out = "ok"
    THEN [thrown |-> FALSE, map |-> MergeLocal(RemoteIndex(RowsOf(email)))]
    ELSE [thrown |-> TRUE, map |-> EmptyIndex]

GetAllEntries(out) ==
    /\ Count
    /\ IF NotAuthenticated(userEmail)
       THEN /\ last' = Call("list", "-", Null, "none", Null, EmptyIndex, "none",
                            Null)
            /\ since' = Observe("-", "offline")
            /\ UNCHANGED <<userEmail, local, remote, saved>>
       ELSE LET try == GetAllEntriesTry(userEmail, out) IN
            /\ last' = Call("list", "-", Null, out, Null,
                            IF try.thrown THEN LocalIndex ELSE try.map,
                            "none", Null)
            /\ since' = Observe("-", IF try.thrown THEN "offline" ELSE "online")
            /\ UNCHANGED <<userEmail, local, remote, saved>>

----------------------------------------------------------------------------
Next ==
    \/ \E email \in Users : Login(email)
    \/ Logout
    \/ \E d \in DateKeys, out \in RemoteOutcomes : GetEntry(d, out)
    \/ \E d \in DateKeys, c \in Contents, out \in RemoteOutcomes : SaveEntry(d, c, out)
    \/ \E out \in RemoteOutcomes : GetAllEntries(out)

Spec == Init /\ [][Next]_vars

TypeOK ==
    /\ userEmail \in Users \cup {NoEmail}
    /\ \A k \in DateKeys : local[k] \in Contents \cup {Null}
    /\ \A r \in remote : /\ r.user_email \in Users
                         /\ r.date_key \in DateKeys
                         /\ r.content \in Contents
                         /\ r.word_count = countWords(r.content)
                         /\ r.updated_at \in 1..calls

----------------------------------------------------------------------------
(* The editor's save and its word-count history: JournalView.saveEntry and   *)
(* the localStorage data store of src/index.tsx                              *)

\* the number of editor saves in one behaviour
MaxSaves == 3

\* const AUTOSAVE_DELAY = 1500: the debounce starts a save no sooner than
\* this after the latest save or timer started
AUTOSAVE_DELAY == 1500

\* Date.now() - 1000 of the synthetic zero-point
BackfillMs == 1000

\* setTimeout(() => setStatus('Saved'), 500)
SavedDelayMs == 500

\* milliseconds between the two readings of Date.now() of one save
ClockSkews == {0, 1}

Sample(t, n) == [timestamp |-> t, wordCount |-> n]

Range(f) == {f[i] : i \in DOMAIN f}

\* dataStore.saveEntry: the item is set for content with words, removed otherwise
EditorStoreEntry(d, content) ==
    [entry EXCEPT ![d] = IF countWords(content) > 0 THEN content ELSE Null]

\* dataStore.getWordCountHistory: `data ? JSON.parse(data) : null`
getWordCountHistory(d) ==
    LET h == history[d] IN
    IF h.raw = "absent" THEN [raised |-> FALSE, null |-> TRUE, value |-> <<>>]
    ELSE IF h.raw = "garbage" THEN [raised |-> TRUE, null |-> TRUE, value |-> <<>>]
    ELSE [raised |-> FALSE, null |-> FALSE, value |-> h.samples]

\* dataStore.saveWordCountHistory: setItem(key, JSON.stringify(history))
saveWordCountHistory(d, h) == [history EXCEPT ![d] = Stored("json", h)]

\* a branch test that lets an empty text into the tracking branch
HasWordsOrNone(n) == n >= 0

\* `if (newWordCount > 0)`
HasWords(n) == n > 0

\* a tracker without the synthetic zero-point
BackfillNone(h, now) == h

\* `if (history.length === 0) history.push({ timestamp: Date.now() - 1000, wordCount: 0 })`
Backfill(h, now) ==
    IF Len(h) = 0 THEN <<Sample(now - BackfillMs, 0)>> ELSE h

\* a tracker that appends on every save
NeedsSampleAlways(h, n) == TRUE

\* a tracker that compares with the first sample instead of the last one
NeedsSampleFirst(h, n) == Len(h) = 0 \/ h[1].wordCount # n

\* lastPoint is the last sample of what was read, null when there is none;
\* `if (!lastPoint || lastPoint.wordCount !== newWordCount)`
NeedsSample(h, n) == Len(h) = 0 \/ h[Len(h)].wordCount # n

\* the tracking branch: whether the history is written, and with what
TrackHistory(h, n, now1, now2) ==
    IF NeedsSample(h, n)
    THEN [write |-> TRUE, samples |-> Append(Backfill(h, now1), Sample(now2, n))]
    ELSE [write |-> FALSE, samples |-> Backfill(h, now1)]

\* JournalView.saveEntry(dateToSave, newText), called by the debounced save
JournalSave(d, text, skew) ==
    /\ hsaves < MaxSaves
    /\ ~timerPending
    /\ LET now1 == clock + AUTOSAVE_DELAY
           now2 == now1 + skew
           n == countWords(text)
           read == getWordCountHistory(d)
           failed == HasWords(n) /\ read.raised
           track == TrackHistory(read.value, n, now1, now2)
       IN /\ entry' = EditorStoreEntry(d, text)
          /\ history' = IF failed THEN history
                        ELSE IF HasWords(n)
                             THEN IF track.write
                                  THEN saveWordCountHistory(d, track.samples)
                                  ELSE history
                             ELSE saveWordCountHistory(d, <<>>)
          /\ entries' = IF failed THEN entries
                        ELSE [k \in IF n > 0 THEN DOMAIN entries \cup {d}
                                             ELSE DOMAIN entries \ {d} |->
                                 IF k = d THEN n ELSE entries[k]]
          /\ status' = IF failed THEN "Save failed" ELSE "Saving..."
          /\ timerPending' = ~failed
          /\ clock' = now1
          /\ hprev' = hlast
          /\ hlast' = [op |-> "save", d |-> d, text |-> text, n |-> n,
                       failed |-> failed, before |-> history[d]]
          /\ cleared' = IF ~failed /\ ~HasWords(n)
                        THEN [cleared EXCEPT ![d] = @ \cup Range(history[d].samples)]
                        ELSE cleared
    /\ hsaves' = hsaves + 1
    /\ hread' = NoRead
    /\ UNCHANGED <<storeVars, streakVars, viewVars, editorVars, overlapVars>>

\* the timer of a completed save fires, before the debounce allows the next save
SavedTimer ==
    /\ timerPending
    /\ timerPending' = FALSE
    /\ status' = "Saved"
    /\ clock' = clock + SavedDelayMs
    /\ UNCHANGED <<entry, history, entries, hlast, hprev, hread, cleared, hsaves,
                   storeVars, streakVars, viewVars, editorVars, overlapVars>>

\* fetchHistory of the entry analysis view: what it gets, or that it raised
FetchHistory(d) ==
    LET read == getWordCountHistory(d) IN
    /\ hread' = [d |-> d, raised |-> read.raised, raw |-> history[d].raw,
                 value |-> read.value]
    /\ hread' # hread
    /\ UNCHANGED <<entry, history, entries, status, timerPending, clock,
                   hlast, hprev, cleared, hsaves, storeVars, streakVars,
                   viewVars, editorVars, overlapVars>>

StoreIdle == StoreInit /\ userEmail = NoEmail

InitHistory ==
    /\ StoreIdle
    /\ StreakIdle
    /\ ViewIdle
    /\ EditorIdle
    /\ OverlapIdle
    /\ \E raws \in [DateKeys -> {"absent", "garbage"}] :
          HistoryStart([k \in DateKeys |-> Stored(raws[k], <<>>)])

NextHistory ==
    \/ \E d \in DateKeys, text \in Contents, skew \in ClockSkews :
          JournalSave(d, text, skew)
    \/ SavedTimer
    \/ \E d \in DateKeys : FetchHistory(d)

SpecHistory == InitHistory /\ [][NextHistory]_vars

----------------------------------------------------------------------------
(* calculateStreaks (src/index.tsx).  A date key is the number of its day;   *)
(* a Date is its time value in milliseconds since the epoch.                 *)

\* the last day of the calendar the keys are drawn from
MaxDay == 6

\* the number of date keys passed to calculateStreaks
MaxKeys == 4

\* 1000 * 60 * 60 * 24
DayMs == 86400000

HourMs == 3600000

Days == 0..MaxDay

\* `new Date()` of the call falls on the last day of the calendar
Today == MaxDay

\* hours east of UTC
TimeZones == {-5, 0, 2}

\* daylight saving: the offset changes by this many hours from DstDay on
DstShifts == {-1, 0, 1}

DstDay == MaxDay - 2

UtcOffsetMs(day) == (tz + IF day >= DstDay THEN dst ELSE 0) * HourMs

\* new Date(key.replace(/-/g, '/')), and today.setHours(0, 0, 0, 0):
\* midnight of the day in the browser's time zone
LocalMidnight(day) == day * DayMs - UtcOffsetMs(day)

\* toDateKey: date.toISOString().split('T')[0], the UTC day of the time value
toDateKey(ms) == ms \div DayMs

\* Math.round(x / d) for x >= 0
RoundDiv(x, d) == (2 * x + d) \div (2 * d)

\* a day difference that truncates
DiffDaysFloor(prevDate, currentDate) == (currentDate - prevDate) \div DayMs

\* Math.round(diffTime / (1000 * 60 * 60 * 24))
DiffDays(prevDate, currentDate) == RoundDiv(currentDate - prevDate, DayMs)

RECURSIVE Insert(_, _)
Insert(sorted, x) ==
    IF sorted = <<>> THEN <<x>>
    ELSE IF x < Head(sorted) THEN <<x>> \o sorted
    ELSE <<Head(sorted)>> \o Insert(Tail(sorted), x)

RECURSIVE SortAsc(_)
\* .sort((a, b) => a.getTime() - b.getTime())
SortAsc(dates) ==
    IF dates = <<>> THEN <<>> ELSE Insert(SortAsc(Tail(dates)), Head(dates))

RECURSIVE LongestScan(_, _, _, _)
\* the for loop over the adjacent pairs of sortedDates
LongestScan(sortedDates, i, currentLongestStreak, longestStreak) ==
    IF i > Len(sortedDates) THEN longestStreak
    ELSE LET run == IF DiffDays(sortedDates[i - 1], sortedDates[i]) = 1
                    THEN currentLongestStreak + 1
                    ELSE 1
         IN LongestScan(sortedDates, i + 1, run,
                        IF run > longestStreak THEN run ELSE longestStreak)

RECURSIVE CurrentWalk(_, _, _)
\* the while loop: dateToCheck goes back one local day at a time
CurrentWalk(dateSet, day, currentStreak) ==
    IF toDateKey(LocalMidnight(day)) \in dateSet
    THEN CurrentWalk(dateSet, day - 1, currentStreak + 1)
    ELSE currentStreak

calculateStreaks(keys) ==
    IF Len(keys) = 0 THEN NoStreaks
    ELSE LET sortedDates == SortAsc([i \in 1..Len(keys) |-> LocalMidnight(keys[i])])
             dateSet == Range(keys)
         IN [currentStreak |-> CurrentWalk(dateSet, Today, 0),
             longestStreak |-> LongestScan(sortedDates, 2, 1, 1)]

\* sequences of distinct days: the keys of the entries Map, in insertion order
KeyLists ==
    UNION {{ks \in [1..n -> Days] : \A i, j \in 1..n : i # j => ks[i] # ks[j]} :
              n \in 0..MaxKeys}

InitStreak ==
    /\ StoreIdle
    /\ HistoryIdle
    /\ ViewIdle
    /\ EditorIdle
    /\ OverlapIdle
    /\ entryKeys \in KeyLists
    /\ tz \in TimeZones
    /\ dst \in DstShifts
    /\ streaks = NoStreaks
    /\ spc = "input"

Calculate ==
    /\ spc = "input"
    /\ streaks' = calculateStreaks(entryKeys)
    /\ spc' = "done"
    /\ UNCHANGED <<entryKeys, tz, dst, storeVars, histVars, viewVars, editorVars,
                   overlapVars>>

NextStreak == Calculate

SpecStreak == InitStreak /\ [][NextStreak]_vars

----------------------------------------------------------------------------
(* getDominantCategory of the analysis view (src/index.tsx, and the same     *)
(* function in src/unnamed/part_000)                                         *)

\* the number of subcategories of the category passed in
MaxSubs == 4

\* the greatest count of a subcategory
MaxCount == 2

\* the subcategories of ANALYSIS_KEYWORDS.feeling, in the order of the lexicon
SubCategories ==
    <<"Anxiety / Fear", "Joy / Happiness", "Sadness / Grief",
      "Anger / Frustration", "Love / Affection">>

\* Object.entries(categoryData): the [key, value] pairs in insertion order,
\* which is the order in which analyzeText fills the object
CategoryDatas ==
    UNION {{[i \in 1..n |-> <<SubCategories[i], counts[i]>>] :
               counts \in [1..n -> 0..MaxCount]} : n \in 0..MaxSubs}

\* the reducer  (a, b) => a[1] > b[1] ? a : b
KeepGreater(a, b) == IF a[2] > b[2] THEN a ELSE b

RECURSIVE Reduce(_, _, _)
\* entries.reduce(f) without an initial value: the fold starts at entries[0]
Reduce(es, i, acc) ==
    IF i > Len(es) THEN acc ELSE Reduce(es, i + 1, KeepGreater(acc, es[i]))

getDominantCategory(es) ==
    IF Len(es) = 0 \/ \A i \in 1..Len(es) : es[i][2] = 0
    THEN "N/A"
    ELSE Reduce(es, 2, es[1])[1]

InitDominant ==
    /\ StoreIdle
    /\ HistoryIdle
    /\ StreakIdle
    /\ EditorIdle
    /\ OverlapIdle
    /\ entryContent = <<>>
    /\ analysis = <<>>
    /\ cloudText = <<>>
    /\ words = <<>>
    /\ categoryData \in CategoryDatas
    /\ dominant = "-"
    /\ vpc = "input"

Dominant ==
    /\ vpc = "input"
    /\ dominant' = getDominantCategory(categoryData)
    /\ vpc' = "done"
    /\ UNCHANGED <<categoryData, entryContent, analysis, cloudText, words,
                   storeVars, histVars, streakVars, editorVars, overlapVars>>

NextDominant == Dominant

SpecDominant == InitDominant /\ [][NextDominant]_vars

----------------------------------------------------------------------------

(* analyzeText (src/index.tsx).  The text is a sequence of characters, a     *)
(* keyword is the sequence of its characters.                                *)

\* the length of the texts that are enumerated
MaxText == 4

\* the characters of the enumerated texts
TextChars == {"I", "i", "a", "m", " "}

\* the letters a-z
Letters ==
    {"a", "b", "c", "d", "e", "f", "g", "h", "i", "j", "k", "l", "m",
     "n", "o", "p", "q", "r", "s", "t", "u", "v", "w", "x", "y", "z"}

\* "I am anxious and scared today"
ExampleText ==
    <<"I", " ", "a", "m", " ", "a", "n", "x", "i", "o", "u", "s", " ",
      "a", "n", "d", " ", "s", "c", "a", "r", "e", "d", " ",
      "t", "o", "d", "a", "y">>

\* "I care i am I": keywords that stand as words of their own
ExampleCare ==
    <<"I", " ", "c", "a", "r", "e", " ", "i", " ", "a", "m", " ", "I">>

EntryContents ==
    UNION {[1..n -> TextChars] : n \in 0..MaxText} \cup {ExampleText, ExampleCare}

\* ANALYSIS_KEYWORDS with every category and subcategory, and of each
\* subcategory's keywords those spelled here
ANALYSIS_KEYWORDS ==
    [feeling |->
        ("Anxiety / Fear" :> << <<"a","n","x","i","o","u","s">>,
                                <<"s","c","a","r","e","d">> >>) @@
        ("Joy / Happiness" :> << >>) @@
        ("Sadness / Grief" :> << >>) @@
        ("Anger / Frustration" :> << <<"m","a","d">> >>) @@
        ("Love / Affection" :> << <<"c","a","r","e">> >>),
     topic |->
        ("Work / Career" :> << >>) @@
        ("Family / Home" :> << <<"m","o","m">> >>) @@
        ("Health / Wellness" :> << >>) @@
        ("Self / Personal Growth" :> << <<"i">>, <<"m","e">>, <<"m","y">> >>),
     mindset |->
        ("Positive" :> << >>) @@
        ("Negative" :> << >>) @@
        ("Certain" :> << <<"i","s">>, <<"a","r","e">> >>) @@
        ("Uncertain" :> << <<"i","f">> >>),
     time |->
        ("Past" :> << <<"h","a","d">> >>) @@
        ("Present" :> << <<"t","o","d","a","y">>, <<"i","s">>, <<"a","m">>,
                         <<"a","r","e">> >>) @@
        ("Future" :> << >>),
     perspective |->
        ("I (Self-focused)" :> << <<"i">>, <<"m","e">>, <<"m","y">> >>) @@
        ("We (Group-focused)" :> << <<"w","e">>, <<"u","s">> >>) @@
        ("Them (Other-focused)" :> << <<"h","e">>, <<"h","i","m">> >>)]

Categories == DOMAIN ANALYSIS_KEYWORDS

\* the upper-case letters of the texts of the model
LowerOf == ("I" :> "i") @@ ("J" :> "j")

\* text.toLowerCase()
toLowerCase(t) ==
    [i \in 1..Len(t) |-> IF t[i] \in DOMAIN LowerOf THEN LowerOf[t[i]] ELSE t[i]]

\* the characters \w of a lower-cased text: letters, digits and the underscore
WordChars == Letters \cup {"0", "1", "2", "3", "4", "5", "6", "7", "8", "9", "_"}

\* a word character \w at position i, none outside the text
IsWordChar(t, i) == i \in 1..Len(t) /\ t[i] \in WordChars

\* a match wherever the keyword's characters stand
WordBoundaryAny(t, i) == TRUE

\* \b before position i: exactly one of t[i - 1], t[i] is a word character
WordBoundary(t, i) == IsWordChar(t, i - 1) # IsWordChar(t, i)

\* the regular expression \bkeyword\b matches at position i
MatchesAt(t, keyword, i) ==
    /\ i + Len(keyword) - 1 <= Len(t)
    /\ \A k \in 1..Len(keyword) : t[i + k - 1] = keyword[k]
    /\ WordBoundary(t, i)
    /\ WordBoundary(t, i + Len(keyword))

RECURSIVE MatchCount(_, _, _)
\* t.match(regex) with the flag g: the matches found from left to right, each
\* search starting where the previous match ended; matches.length, 0 for null
MatchCount(t, keyword, i) ==
    IF i > Len(t) THEN 0
    ELSE IF MatchesAt(t, keyword, i)
         THEN 1 + MatchCount(t, keyword, i + Len(keyword))
         ELSE MatchCount(t, keyword, i + 1)

RECURSIVE SubCategoryCount(_, _, _)
\* the loop over the keywords of a subcategory: results[category][subCategory]
SubCategoryCount(t, keywords, k) ==
    IF k > Len(keywords) THEN 0
    ELSE MatchCount(toLowerCase(t), keywords[k], 1)
            + SubCategoryCount(t, keywords, k + 1)

analyzeText(t) ==
    [category \in Categories |->
        [subCategory \in DOMAIN ANALYSIS_KEYWORDS[category] |->
            SubCategoryCount(t, ANALYSIS_KEYWORDS[category][subCategory], 1)]]

InitAnalyze ==
    /\ StoreIdle
    /\ HistoryIdle
    /\ StreakIdle
    /\ EditorIdle
    /\ OverlapIdle
    /\ categoryData = <<>>
    /\ dominant = "-"
    /\ entryContent \in EntryContents
    /\ analysis = <<>>
    /\ cloudText = <<>>
    /\ words = <<>>
    /\ vpc = "input"

\* setAnalysis(analyzeText(entryContent)), once and once more
Analyze ==
    /\ Len(analysis) < 2
    /\ analysis' = Append(analysis, analyzeText(entryContent))
    /\ vpc' = "done"
    /\ UNCHANGED <<categoryData, dominant, entryContent, cloudText, words,
                   storeVars, histVars, streakVars, editorVars, overlapVars>>

NextAnalyze == Analyze

SpecAnalyze == InitAnalyze /\ [][NextAnalyze]_vars

----------------------------------------------------------------------------

(* WordCloud (src/index.tsx): the memo `words` computed from the prop text   *)

\* the number of whitespace-separated tokens of the enumerated texts
MaxCloudWords == 4

\* .slice(0, 50)
TopWords == 50

minFontSize == 16

maxFontSize == 36

\* 'the' is in STOP_WORDS, 'go' is short, 'day1' is not alphabetic
CloudVocabulary ==
    {<<"j","o","y">>, <<"J","o","y">>, <<"s","a","d">>, <<"f","u","n">>,
     <<"t","h","e">>, <<"g","o">>, <<"d","a","y","1">>}

\* STOP_WORDS
STOP_WORDS ==
    {<<"a">>, <<"a","n">>, <<"a","n","d">>, <<"a","r","e">>, <<"a","s">>,
     <<"a","t">>, <<"b","e">>, <<"b","u","t">>, <<"b","y">>, <<"f","o","r">>,
     <<"h","a","s">>, <<"h","a","v","e">>, <<"i","n">>, <<"i","s">>,
     <<"i","t">>, <<"i","t","s">>, <<"o","f">>, <<"o","n">>,
     <<"t","h","a","t">>, <<"t","h","e">>, <<"t","o">>, <<"w","a","s">>,
     <<"w","e","r","e">>, <<"w","i","t","h">>}

\* the length of the tokens written one after another with a space between
JoinLen(tokens, n) ==
    IF n = 0 THEN 0
    ELSE Cardinality({<<k, c>> \in (1..n) \X (1..4) : c <= Len(tokens[k])}) + n - 1

\* the tokens, of at most four characters, written one after another with a
\* space between them
Join(tokens) ==
    [p \in 1..JoinLen(tokens, Len(tokens)) |->
        LET k == CHOOSE x \in 1..Len(tokens) :
                     JoinLen(tokens, x - 1) < p /\ p <= JoinLen(tokens, x) + 1
            c == p - JoinLen(tokens, k - 1) - (IF k = 1 THEN 0 ELSE 1)
        IN IF c = 0 \/ c > Len(tokens[k]) THEN " " ELSE tokens[k][c]]

LetterSeq ==
    <<"a", "b", "c", "d", "e", "f", "g", "h", "i", "j", "k", "l", "m",
      "n", "o", "p", "q", "r", "s", "t", "u", "v", "w", "x", "y", "z">>

\* distinct three-letter words: xaa, xab, ..., xaz, xba, ...
NthWord(n) == <<"x", LetterSeq[((n - 1) \div 26) + 1], LetterSeq[((n - 1) % 26) + 1]>>

\* more distinct words than the cloud keeps, each once
ManyWords == [n \in 1..(TopWords + 2) |-> NthWord(n)]

\* texts of more distinct words than the cloud keeps: each once; the last
\* one twice; the first one and the last one twice
LongTexts ==
    {Join(ManyWords),
     Join(ManyWords \o <<NthWord(TopWords + 2)>>),
     Join(ManyWords \o <<NthWord(TopWords + 2), NthWord(1)>>)}

CloudTexts ==
    {Join(tokens) : tokens \in UNION {[1..n -> CloudVocabulary] : n \in 0..MaxCloudWords}}
        \cup LongTexts

RECURSIVE RunEnd(_, _)
\* the position after the run of letters [a-z] that starts at position i
RunEnd(t, i) ==
    IF i <= Len(t) /\ t[i] \in Letters THEN RunEnd(t, i + 1) ELSE i

\* the regular expression /\b[a-z]{3,}\b/ matches at position i: at a word
\* boundary, a run of at least three letters that ends at a word boundary
WordMatchesAt(t, i) ==
    /\ WordBoundary(t, i)
    /\ RunEnd(t, i) - i >= 3
    /\ WordBoundary(t, RunEnd(t, i))

RECURSIVE MatchWords(_, _)
\* t.match(/\b[a-z]{3,}\b/g) || []: the leftmost match from position i on,
\* then the matches after its end
MatchWords(t, i) ==
    LET starts == {k \in i..Len(t) : WordMatchesAt(t, k)}
    IN IF starts = {} THEN <<>>
       ELSE LET k == CHOOSE x \in starts : \A y \in starts : x <= y
            IN <<SubSeq(t, k, RunEnd(t, k) - 1)>> \o MatchWords(t, RunEnd(t, k))

RECURSIVE CountWords(_, _, _)
\* matches.forEach(...): the Map wordCounts as its entries in insertion order
CountWords(matches, k, wordCounts) ==
    IF k > Len(matches) THEN wordCounts
    ELSE LET word == matches[k]
             at == {i \in 1..Len(wordCounts) : wordCounts[i].word = word}
         IN IF word \in STOP_WORDS THEN CountWords(matches, k + 1, wordCounts)
            ELSE IF at = {}
            THEN CountWords(matches, k + 1,
                            Append(wordCounts, [word |-> word, count |-> 1]))
            ELSE CountWords(matches, k + 1,
                    [wordCounts EXCEPT ![CHOOSE i \in at : TRUE].count = @ + 1])

\* the comparator the other way round: (a, b) => a.count - b.count
ComesBeforeAscending(a, b) == a.count - b.count < 0

\* the comparator (a, b) => b.count - a.count is negative: a comes before b
ComesBefore(a, b) == b.count - a.count < 0

\* where Array.prototype.sort, which is stable, puts entry i: after the
\* entries that come before it and after the earlier entries that the
\* comparator does not tell apart from it
SortedIndex(es, i) ==
    1 + Cardinality({j \in 1..Len(es) : ComesBefore(es[j], es[i])})
      + Cardinality({j \in 1..(i - 1) : ~ComesBefore(es[i], es[j])
                                        /\ ~ComesBefore(es[j], es[i])})

\* .sort((a, b) => b.count - a.count)
SortByCount(es) ==
    [p \in 1..Len(es) |-> es[CHOOSE i \in 1..Len(es) : SortedIndex(es, i) = p]]

\* .slice(0, 50)
Slice(es, n) == SubSeq(es, 1, IF Len(es) < n THEN Len(es) ELSE n)

\* fontSize as the fraction <<numerator, denominator>>
FontSize(count, minCount, maxCount) ==
    IF maxCount > minCount
    THEN <<minFontSize * (maxCount - minCount)
              + (count - minCount) * (maxFontSize - minFontSize),
           maxCount - minCount>>
    ELSE <<minFontSize + maxFontSize, 2>>

WordCloud(t) ==
    LET matches == MatchWords(toLowerCase(t), 1)
        wordCounts == CountWords(matches, 1, <<>>)
        sortedWords == Slice(SortByCount(wordCounts), TopWords)
    IN IF Len(sortedWords) = 0 THEN <<>>
       ELSE LET minCount == sortedWords[Len(sortedWords)].count
                maxCount == sortedWords[1].count
            IN [i \in 1..Len(sortedWords) |->
                   [word |-> sortedWords[i].word,
                    fontSize |-> FontSize(sortedWords[i].count, minCount, maxCount)]]

InitCloud ==
    /\ StoreIdle
    /\ HistoryIdle
    /\ StreakIdle
    /\ EditorIdle
    /\ OverlapIdle
    /\ categoryData = <<>>
    /\ dominant = "-"
    /\ entryContent = <<>>
    /\ analysis = <<>>
    /\ cloudText \in CloudTexts
    /\ words = <<>>
    /\ vpc = "input"

\* <WordCloud text={content} /> is rendered
RenderCloud ==
    /\ vpc = "input"
    /\ words' = WordCloud(cloudText)
    /\ vpc' = "done"
    /\ UNCHANGED <<categoryData, dominant, entryContent, analysis, cloudText,
                   storeVars, histVars, streakVars, editorVars, overlapVars>>

NextCloud == RenderCloud

SpecCloud == InitCloud /\ [][NextCloud]_vars

----------------------------------------------------------------------------

(* The editor JournalView (src/unnamed/part_000 and src/index.tsx) over the  *)
(* store of src/dataStore.ts: the fetchEntry effect, handleChange and the    *)
(* debounced save.  A getEntry that fetchEntry awaits returns in a later     *)
(* step than the one that calls it.  The status line and the calendar map   *)
(* of the view belong to the model of the history tracker above.             *)

\* the number of selections of a date after the view is mounted
MaxSelects == 1

\* the number of keystrokes
MaxEdits == 2

\* the number of ticks of the clock
MaxTicks == 4

\* the clock advances in steps of this many milliseconds
TickMs == 750

\* the user who is logged in while the view is shown
EditorUser == "a@x"

\* the entries of the user when the view is mounted: a row and its mirror,
\* or neither
EditorStart(email, contentOf) ==
    /\ userEmail = email
    /\ remote = {[user_email |-> email, date_key |-> k, content |-> contentOf[k],
                  word_count |-> countWords(contentOf[k]), updated_at |-> 1] :
                    k \in {j \in DateKeys : contentOf[j] # Null}}
    /\ local = contentOf
    /\ calls = 0
    /\ last = [op |-> "init", d |-> "-", c |-> Null, out |-> "none",
               user |-> email, text |-> Null, index |-> EmptyIndex,
               err |-> "none", cached |-> Null, stored |-> FALSE]
    /\ saved = [k \in DateKeys |-> NoSave]
    /\ since = [k \in DateKeys |-> "fresh"]

\* the view is mounted: useState(new Date()), useState(''), and the effect
\* of [selectedDate] has called fetchEntry
InitEditor ==
    /\ \E contentOf \in [DateKeys -> {Null, Text(1)}] :
          EditorStart(EditorUser, contentOf)
    /\ HistoryIdle
    /\ StreakIdle
    /\ ViewIdle
    /\ OverlapIdle
    /\ selectedDate \in DateKeys
    /\ edText = EmptyText
    /\ timeout = NoTimeout
    /\ reads = {[d |-> selectedDate, n |-> 0]}
    /\ nowMs = 0
    /\ typed = [k \in DateKeys |-> Null]
    /\ typedAt = -1
    /\ passed = [k \in DateKeys |-> Null]
    /\ loaded = Null
    /\ edit = NoEdit
    /\ nSelects = 0
    /\ nEdits = 0

\* onDateSelect={setSelectedDate}: a new Date, so the effect of
\* [selectedDate] runs and fetchEntry calls getEntry, which is pending
SelectDate(d) ==
    /\ nSelects < MaxSelects
    /\ nSelects' = nSelects + 1
    /\ selectedDate' = d
    /\ reads' = reads \cup {[d |-> d, n |-> nSelects + 1]}
    /\ loaded' = Null
    /\ UNCHANGED <<edText, timeout, nowMs, typed, typedAt, passed, edit, nEdits,
                   storeVars, histVars, streakVars, viewVars, overlapVars>>

\* a getEntry of fetchEntry returns: setText(savedContent)
FetchEntryReturns(r, out) ==
    /\ r \in reads
    /\ reads' = reads \ {r}
    /\ LET try == GetEntryTry(userEmail, r.d, out)
           savedContent == IF try.thrown THEN GetEntryCatch(r.d) ELSE try.content
       IN /\ local' = IF try.thrown THEN local ELSE GetEntryMirror(r.d, try.content)
          /\ edText' = OrEmpty(savedContent)
          /\ loaded' = IF r.n = nSelects THEN OrEmpty(savedContent) ELSE loaded
    /\ UNCHANGED <<selectedDate, timeout, nowMs, typed, typedAt, passed, edit,
                   nSelects, nEdits, userEmail, remote, last, saved, since, calls,
                   histVars, streakVars, viewVars, overlapVars>>

\* debounce: clearTimeout(timeout); timeout = setTimeout(() => func(...args), delay)
Debounce(date, newText) ==
    [pending |-> TRUE, date |-> date, newText |-> newText,
     due |-> nowMs + AUTOSAVE_DELAY]

\* handleChange: setText(newText); debouncedSave(selectedDate, newText)
HandleChange(newText) ==
    /\ nEdits < MaxEdits
    /\ nEdits' = nEdits + 1
    /\ edText' = newText
    /\ timeout' = Debounce(selectedDate, newText)
    /\ typed' = [typed EXCEPT ![selectedDate] = newText]
    /\ typedAt' = nowMs
    /\ edit' = [d |-> selectedDate, n |-> nSelects, base |-> edText,
                loaded |-> loaded, settled |-> reads = {} /\ edit.n # nSelects]
    /\ UNCHANGED <<selectedDate, reads, nowMs, passed, loaded, nSelects,
                   storeVars, histVars, streakVars, viewVars, overlapVars>>

\* the timer of debounce fires: saveEntry(date, newText) of the view, which
\* calls dataStore.saveEntry(toDateKey(date), newText)
TimerFires(out) ==
    /\ timeout.pending
    /\ timeout.due <= nowMs
    /\ timeout' = NoTimeout
    /\ passed' = [passed EXCEPT ![timeout.date] = timeout.newText]
    /\ local' = SaveEntryLocal(timeout.date, timeout.newText)
    /\ remote' = SaveEntryTry(userEmail, timeout.date, timeout.newText, out).rows
    /\ UNCHANGED <<selectedDate, edText, reads, nowMs, typed, typedAt, loaded,
                   edit, nSelects, nEdits, userEmail, last, saved, since, calls,
                   histVars, streakVars, viewVars, overlapVars>>

\* time passes, up to the time at which the timer is due
Tick ==
    /\ nowMs < MaxTicks * TickMs
    /\ ~(timeout.pending /\ timeout.due <= nowMs)
    /\ nowMs' = nowMs + TickMs
    /\ UNCHANGED <<selectedDate, edText, timeout, reads, typed, typedAt, passed,
                   loaded, edit, nSelects, nEdits,
                   storeVars, histVars, streakVars, viewVars, overlapVars>>

NextEditor ==
    \/ \E d \in DateKeys : SelectDate(d)
    \/ \E r \in reads, out \in RemoteOutcomes : FetchEntryReturns(r, out)
    \/ \E newText \in Contents : HandleChange(newText)
    \/ \E out \in RemoteOutcomes : TimerFires(out)
    \/ Tick

SpecEditor == InitEditor /\ [][NextEditor]_vars

----------------------------------------------------------------------------

(* saveEntry calls that overlap (src/dataStore.ts): a call writes the cache  *)
(* and sends its upsert, and the upsert is answered in a later step; the     *)
(* remote store answers the requests it holds in any order.                  *)

\* the number of saveEntry calls
MaxSaveCalls == 2

\* the number of getEntry calls made beside them
MaxGetCalls == 1

\* await supabase.from('journal_entries').upsert(...) is sent and pending
SaveEntryBegins(d, content) ==
    /\ Len(began) < MaxSaveCalls
    /\ ~NotAuthenticated(userEmail)
    /\ local' = SaveEntryLocal(d, content)
    /\ upserts' = upserts \cup {[seq |-> Len(began) + 1, d |-> d, c |-> content]}
    /\ began' = Append(began,
                       [d |-> d, c |-> content, out |-> "pending",
                        during |-> {u.seq : u \in {v \in upserts : v.d = d}},
                        at |-> calls, doneAt |-> 0])
    /\ UNCHANGED <<userEmail, remote, last, saved, since, calls,
                   histVars, streakVars, viewVars, editorVars>>

\* the remote store answers an upsert and the saveEntry call returns
SaveEntryReturns(u, out) ==
    /\ u \in upserts
    /\ upserts' = upserts \ {u}
    /\ remote' = SaveEntryTry(userEmail, u.d, u.c, out).rows
    /\ began' = [began EXCEPT ![u.seq].out = out, ![u.seq].doneAt = calls]
    /\ UNCHANGED <<userEmail, local, last, saved, since, calls,
                   histVars, streakVars, viewVars, editorVars>>

\* a getEntry call, while saveEntry calls may be under way
OverlapGetEntry(d, out) ==
    /\ calls < MaxGetCalls
    /\ GetEntry(d, out)
    /\ UNCHANGED overlapVars

InitOverlap ==
    /\ StoreInit
    /\ userEmail = EditorUser
    /\ HistoryIdle
    /\ StreakIdle
    /\ ViewIdle
    /\ EditorIdle
    /\ OverlapIdle

NextOverlap ==
    \/ \E d \in DateKeys, content \in Contents : SaveEntryBegins(d, content)
    \/ \E u \in upserts, out \in RemoteOutcomes : SaveEntryReturns(u, out)
    \/ \E d \in DateKeys, out \in RemoteOutcomes : OverlapGetEntry(d, out)

SpecOverlap == InitOverlap /\ [][NextOverlap]_vars

----------------------------------------------------------------------------

(* Properties of the store *)

LoggedIn == last.user # NoEmail

StoreCall == last.op \in {"get", "save", "list"}

RowsFor(email, d) == {r \in remote : r.user_email = email /\ r.date_key = d}

\* C1: after a saveEntry of a key with content of word count 0, a following
\* getAllEntries of the same user does not contain the key, whether or not the
\* remote store answered the save and the listing.
C1_EmptySaveNotListed ==
    (last.op = "list" /\ LoggedIn) =>
        \A d \in DateKeys :
            (saved[d].has /\ saved[d].user = last.user /\ countWords(saved[d].c) = 0)
                => d \notin DOMAIN last.index

\* C2: saveEntry(d, C) with word count > 0 followed by getEntry(d) of the same
\* user returns C, when the remote store answered both calls and when it
\* answered neither of them nor any call in between.
C2_RoundTrip ==
    (/\ last.op = "get" /\ LoggedIn
     /\ saved[last.d].has
     /\ saved[last.d].user = last.user
     /\ countWords(saved[last.d].c) > 0
     /\ \/ saved[last.d].ok /\ last.out = "ok"
        \/ ~saved[last.d].ok /\ last.out # "ok" /\ since[last.d] = "offline")
    => last.text = saved[last.d].c

C2_Witness ==
    /\ last.op = "get" /\ LoggedIn
    /\ saved[last.d].has
    /\ saved[last.d].user = last.user
    /\ countWords(saved[last.d].c) > 0
    /\ saved[last.d].ok /\ last.out = "ok"
    /\ last.cached = saved[last.d].c
    /\ last.text = saved[last.d].c

\* C3: after a saveEntry(d, C) whose upsert failed, the local cache holds C
\* for d until the next saveEntry of d, whatever calls are made meanwhile.
C3_NeverLost ==
    \A d \in DateKeys :
        (saved[d].has /\ ~saved[d].ok) => local[d] = saved[d].c

\* C4: after a saveEntry(d, C) whose upsert succeeded, if no later call is
\* answered by the remote store, getEntry(d) returns C.
C4_Fallback ==
    (/\ last.op = "get" /\ LoggedIn
     /\ last.out # "ok"
     /\ saved[last.d].has /\ saved[last.d].ok
     /\ since[last.d] = "offline")
    => last.text = saved[last.d].c

C4_Witness ==
    /\ last.op = "get" /\ LoggedIn
    /\ last.out # "ok"
    /\ saved[last.d].has /\ saved[last.d].ok
    /\ since[last.d] = "offline"
    /\ countWords(saved[last.d].c) > 0
    /\ last.text = saved[last.d].c

C6_FailFast ==
    (StoreCall /\ ~LoggedIn) => last.err = "NotLoggedIn"

\* C7: for a logged-in user getEntry, saveEntry and getAllEntries surface no
\* error, whatever the remote store does; the only error ever surfaced is the
\* not-logged-in one, and only to a caller that is not logged in.
C7_OnlyNotLoggedInSurfaced ==
    /\ (StoreCall /\ LoggedIn) => last.err = "none"
    /\ last.err # "none" => (last.err = "NotLoggedIn" /\ ~LoggedIn)

C7_Witness ==
    /\ last.op = "save" /\ LoggedIn
    /\ last.out = "throw"
    /\ last.err = "none"

\* C8: a key that only another user has ever saved is invisible to the
\* current user: getEntry of it returns empty text and getAllEntries does not
\* contain it.
C8_NoCrossUser ==
    LoggedIn =>
        \A d \in DateKeys :
            (saved[d].has /\ saved[d].sole /\ saved[d].user # last.user)
            => /\ (last.op = "get" /\ last.d = d) => last.text = EmptyText
               /\ last.op = "list" => d \notin DOMAIN last.index

\* C9: when the remote request of getEntry or getAllEntries is answered and
\* both the remote store and the local cache hold a value for a key, the
\* result for the key is the remote content (word count), not the cached one.
C9_RemoteWins ==
    (LoggedIn /\ last.out = "ok") =>
        /\ (last.op = "get" /\ last.cached # Null /\ RowsFor(last.user, last.d) # {})
           => \A r \in RowsFor(last.user, last.d) : last.text = r.content
        /\ last.op = "list"
           => \A d \in DateKeys :
                (local[d] # Null /\ RowsFor(last.user, d) # {})
                => /\ d \in DOMAIN last.index
                   /\ \A r \in RowsFor(last.user, d) : last.index[d] = r.word_count

C9_Witness ==
    /\ LoggedIn /\ last.out = "ok" /\ last.op = "list"
    /\ \E d \in DateKeys :
         /\ countWords(local[d]) > 0
         /\ \E r \in RowsFor(last.user, d) :
              /\ r.word_count # countWords(local[d])
              /\ last.index[d] = r.word_count

\* C10: when the remote store answers getEntry(d) with "no row", getEntry
\* returns empty text, not the cached content, and the mirror of d is empty.
C10_NotFoundIsEmpty ==
    (/\ last.op = "get" /\ LoggedIn /\ last.out = "ok"
     /\ RowsFor(last.user, last.d) = {})
    => /\ last.text = EmptyText
       /\ local[last.d] = EmptyText

C10_Witness ==
    /\ last.op = "get" /\ LoggedIn /\ last.out = "ok"
    /\ RowsFor(last.user, last.d) = {}
    /\ countWords(last.cached) > 0
    /\ last.text = EmptyText

RowsIn(rows, email, d) == {r \in rows : r.user_email = email /\ r.date_key = d}

\* C11: after a getEntry(d) that the remote store answered, the cache value
\* of d is the text the call returned, and no other cache key has changed.
C11_MirrorRefreshed ==
    [][(last'.op = "get" /\ last'.out = "ok" /\ last'.user # NoEmail)
        => /\ local'[last'.d] = last'.text
           /\ \A k \in DateKeys \ {last'.d} : local'[k] = local[k]]_vars

C11_Witness ==
    /\ last.op = "get" /\ last.out = "ok" /\ LoggedIn
    /\ last.cached # last.text
    /\ local[last.d] = last.text
    /\ \E k \in DateKeys \ {last.d} : countWords(local[k]) > 0

\* C12: when the remote request of getAllEntries fails, the result is
\* exactly the date keys whose cached content has word count > 0, each with
\* the word count of the cached content.
C12_LocalOnlyIndex ==
    (last.op = "list" /\ LoggedIn /\ last.out # "ok")
    => /\ DOMAIN last.index = {k \in DateKeys : countWords(local[k]) > 0}
       /\ \A k \in DOMAIN last.index : last.index[k] = countWords(local[k])

C12_Witness ==
    /\ last.op = "list" /\ LoggedIn /\ last.out # "ok"
    /\ \E k \in DateKeys : local[k] # Null /\ countWords(local[k]) = 0
    /\ \E k \in DOMAIN last.index : last.index[k] = countWords(local[k])

\* C13: the remote store holds at most one row per user and date key, and
\* after an answered saveEntry that row carries the content, the word count
\* and the timestamp of that call.
C13_OneRowPerKey ==
    /\ \A r1, r2 \in remote :
          (r1.user_email = r2.user_email /\ r1.date_key = r2.date_key) => r1 = r2
    /\ (last.op = "save" /\ LoggedIn /\ last.out = "ok")
       => RowsFor(last.user, last.d) =
            {[user_email |-> last.user, date_key |-> last.d, content |-> last.c,
              word_count |-> countWords(last.c), updated_at |-> calls]}

C13_Witness ==
    /\ last.op = "save" /\ LoggedIn /\ last.out = "ok"
    /\ last.stored
    /\ last.cached # last.c
    /\ Cardinality(RowsFor(last.user, last.d)) = 1

\* C14: a saveEntry(d, C) right after an answered saveEntry(d, C) leaves the
\* cache value of d and the remote row of d (its content, its word count, and
\* that it is one row) as the first call left them, whether or not the remote
\* store answers the second call.
C14_SaveIdempotent ==
    [][(/\ last.op = "save" /\ last.user # NoEmail /\ last.out = "ok"
        /\ last'.op = "save" /\ last'.d = last.d /\ last'.c = last.c)
       => /\ local'[last.d] = local[last.d]
          /\ local'[last.d] = last.c
          /\ {r.content : r \in RowsIn(remote', last.user, last.d)} = {last.c}
          /\ Cardinality(RowsIn(remote', last.user, last.d)) = 1]_vars

C14_Witness ==
    /\ last.op = "save" /\ LoggedIn /\ last.out # "ok"
    /\ countWords(last.c) > 0
    /\ last.cached = last.c
    /\ local[last.d] = last.c
    /\ \E r \in RowsFor(last.user, last.d) :
          r.content = last.c /\ r.updated_at = calls - 1

\* C25: an answered getAllEntries keeps every key that the remote result
\* lacks and whose cached content has a word count > 0, with the cached word
\* count; for a key the remote result holds, the reported count is the
\* remote one whatever the cache holds.
C25_LocalKeyKept ==
    (last.op = "list" /\ LoggedIn /\ last.out = "ok") =>
        \A d \in DateKeys :
            IF RowsFor(last.user, d) = {}
            THEN countWords(local[d]) > 0
                    => /\ d \in DOMAIN last.index
                       /\ last.index[d] = countWords(local[d])
            ELSE /\ d \in DOMAIN last.index
                 /\ last.index[d] \in {r.word_count : r \in RowsFor(last.user, d)}

\* one key only cached, another in the remote result with a count that
\* differs from the count of its cached content
C25_Witness ==
    /\ last.op = "list" /\ LoggedIn /\ last.out = "ok"
    /\ \E d, e \in DateKeys :
          /\ RowsFor(last.user, d) = {}
          /\ countWords(local[d]) > 0
          /\ last.index[d] = countWords(local[d])
          /\ RowsFor(last.user, e) # {}
          /\ last.index[e] # countWords(local[e])

\* C26: a saveEntry without a user identity raises 'Not logged in' and
\* leaves the cache and the remote store exactly as they were.
C26_RejectedSaveWritesNothing ==
    [][(calls' = calls + 1 /\ last'.op = "save" /\ userEmail = NoEmail)
       => /\ last'.err = "NotLoggedIn"
          /\ local' = local
          /\ remote' = remote]_vars

C26_Witness ==
    /\ last.op = "save" /\ ~LoggedIn
    /\ last.err = "NotLoggedIn"
    /\ countWords(last.c) > 0
    /\ local[last.d] # last.c
    /\ remote # {}

----------------------------------------------------------------------------
(* Properties of the history tracker *)

TwiceInARow ==
    /\ hlast.op = "save" /\ hprev.op = "save"
    /\ hlast.d = hprev.d /\ hlast.text = hprev.text

\* C15: the stored history of a date key never has two consecutive samples
\* with the same word count.
C15_NoRepeatedCount ==
    \A d \in DateKeys :
        LET h == history[d].samples IN
        \A i \in 1..(Len(h) - 1) : h[i].wordCount # h[i + 1].wordCount

C15_Witness ==
    /\ hlast.op = "save" /\ ~hlast.failed /\ hlast.n > 0
    /\ Len(hlast.before.samples) >= 2
    /\ hlast.before.samples[Len(hlast.before.samples)].wordCount = hlast.n
    /\ history[hlast.d] = hlast.before

\* C16 as claimed: two saves in a row of the same content for a date key
\* make the history of the key at most one sample longer than it was before
\* the first of them, whatever it was then.
C16_AtMostOneSample ==
    TwiceInARow =>
        Len(history[hlast.d].samples) - Len(hprev.before.samples) <= 1

\* C16: of two saves in a row of the same content for a date key the second
\* appends nothing, and the first appends at most one sample of the content's
\* word count, preceded by the synthetic zero-point when the history was empty.
C16_SecondSaveAppendsNothing ==
    TwiceInARow =>
        LET h0 == hprev.before.samples
            h2 == history[hlast.d].samples
        IN IF hlast.n = 0 THEN h2 = <<>>
           ELSE /\ h2 = hlast.before.samples
                /\ \/ h2 = h0
                   \/ /\ Len(h0) > 0
                      /\ h2 = Append(h0, h2[Len(h2)])
                      /\ h2[Len(h2)].wordCount = hlast.n
                   \/ /\ Len(h0) = 0
                      /\ Len(h2) = 2
                      /\ h2[1].wordCount = 0
                      /\ h2[2].wordCount = hlast.n

C16_Witness ==
    /\ TwiceInARow
    /\ hlast.n > 0 /\ ~hlast.failed
    /\ Len(hprev.before.samples) = 0
    /\ Len(history[hlast.d].samples) = 2
    /\ history[hlast.d] = hlast.before

\* C17: a save with word count n > 0 that finds the history of its date key
\* empty (never written, or cleared) leaves exactly two samples: one with word
\* count 0, then one with word count n, the first with the earlier timestamp.
C17_BackfillOnEmpty ==
    (/\ hlast.op = "save" /\ hlast.n > 0
     /\ hlast.before.raw # "garbage"
     /\ Len(hlast.before.samples) = 0)
    => LET h == history[hlast.d] IN
       /\ h.raw = "json"
       /\ Len(h.samples) = 2
       /\ h.samples[1].wordCount = 0
       /\ h.samples[2].wordCount = hlast.n
       /\ h.samples[1].timestamp < h.samples[2].timestamp

C17_Witness ==
    /\ hlast.op = "save" /\ hlast.n > 0
    /\ hlast.before = Stored("json", <<>>)
    /\ Len(history[hlast.d].samples) = 2
    /\ history[hlast.d].samples[2].wordCount = hlast.n

\* C18: a save of content with word count 0 leaves the history of its date
\* key empty, whatever it held, and no sample that a clearing removed is in
\* the history of the key afterwards.
C18_ClearedOnEmpty ==
    /\ (hlast.op = "save" /\ hlast.n = 0)
       => history[hlast.d] = Stored("json", <<>>)
    /\ \A d \in DateKeys : Range(history[d].samples) \cap cleared[d] = {}

C18_Witness ==
    \E d \in DateKeys :
        /\ cleared[d] # {}
        /\ Len(history[d].samples) >= 2
        /\ hlast.op = "save" /\ hlast.d = d /\ hlast.n > 0

\* C19: a stored history that does not parse is not fatal: a save for its
\* date key does not end in 'Save failed', and reading it does not raise.
C19_CorruptNotFatal ==
    /\ (hlast.op = "save" /\ hlast.before.raw = "garbage") => ~hlast.failed
    /\ hread.raw = "garbage" => ~hread.raised

----------------------------------------------------------------------------
(* Properties of calculateStreaks *)

\* the lengths of the runs of consecutive days within a set of days
RunLengths(S) ==
    {n \in 1..Cardinality(S) : \E a \in S : \A i \in 0..(n - 1) : a + i \in S}

Max(S) == CHOOSE x \in S : \A y \in S : y <= x

LongestRun(S) == Max(RunLengths(S) \cup {0})

\* C20: longestStreak is the length of the longest run of consecutive
\* calendar days among the keys, 0 for no keys.
C20_LongestStreak ==
    spc = "done" => streaks.longestStreak = LongestRun(Range(entryKeys))

C20_Witness ==
    /\ spc = "done"
    /\ Range(entryKeys) = {Today, Today - 1, Today - 2, Today - 6}
    /\ entryKeys[1] = Today - 6 /\ entryKeys[2] = Today
    /\ dst = 1
    /\ streaks.longestStreak = 3

\* the number of consecutive days ending at `day` (inclusive) that are in S
RECURSIVE RunEndingAt(_, _)
RunEndingAt(S, day) ==
    IF day \in S THEN 1 + RunEndingAt(S, day - 1) ELSE 0

\* C21: currentStreak is the number of consecutive days ending at today
\* that are all among the keys, and 0 whenever today is not among them.
C21_CurrentStreak ==
    spc = "done" => streaks.currentStreak = RunEndingAt(Range(entryKeys), Today)

\* C30: currentStreak <= longestStreak; longestStreak is 0 exactly for no
\* keys, and currentStreak is 0 whenever today is not among the keys.
C30_StreakBounds ==
    spc = "done" =>
        /\ streaks.currentStreak <= streaks.longestStreak
        /\ (streaks.longestStreak = 0) <=> (entryKeys = <<>>)
        /\ Today \notin Range(entryKeys) => streaks.currentStreak = 0

(* Properties of getDominantCategory *)

\* C22: the reported subcategory has the greatest count, the first such
\* subcategory in lexicon order when several share it; 'N/A' when every
\* count is zero.
C22_DominantFirstGreatest ==
    vpc = "done" =>
        IF \A i \in 1..Len(categoryData) : categoryData[i][2] = 0
        THEN dominant = "N/A"
        ELSE \E i \in 1..Len(categoryData) :
                /\ dominant = categoryData[i][1]
                /\ \A j \in 1..Len(categoryData) :
                      /\ categoryData[j][2] <= categoryData[i][2]
                      /\ j < i => categoryData[j][2] < categoryData[i][2]

(* Properties of analyzeText *)

RECURSIVE WordsOf(_, _, _)
\* the words of a text from position i on: its maximal runs of word characters
\* (word is the run that ends before position i)
WordsOf(t, i, word) ==
    IF i > Len(t) THEN (IF word = <<>> THEN <<>> ELSE <<word>>)
    ELSE IF t[i] \in WordChars THEN WordsOf(t, i + 1, Append(word, t[i]))
    ELSE (IF word = <<>> THEN <<>> ELSE <<word>>) \o WordsOf(t, i + 1, <<>>)

\* the number of words of the text that are the keyword
WholeWordCount(t, keyword) ==
    LET ws == WordsOf(t, 1, <<>>)
    IN Cardinality({i \in 1..Len(ws) : ws[i] = keyword})

RECURSIVE SumWholeWords(_, _, _)
SumWholeWords(t, keywords, k) ==
    IF k > Len(keywords) THEN 0
    ELSE WholeWordCount(t, keywords[k]) + SumWholeWords(t, keywords, k + 1)

\* C23: every run of analyzeText gives, for each subcategory of the five
\* categories, the summed number of whole-word occurrences of its keywords in
\* the lower-cased text (a count >= 0); "I am anxious and scared today" gives
\* 'Anxiety / Fear' >= 2 and 'Present' >= 1; a second run gives the same.
C23_AnalyzeText ==
    vpc = "done" =>
        /\ \A r \in 1..Len(analysis) :
              /\ DOMAIN analysis[r] =
                    {"feeling", "topic", "mindset", "time", "perspective"}
              /\ \A category \in Categories :
                    /\ DOMAIN analysis[r][category] =
                          DOMAIN ANALYSIS_KEYWORDS[category]
                    /\ \A subCategory \in DOMAIN ANALYSIS_KEYWORDS[category] :
                          /\ analysis[r][category][subCategory] >= 0
                          /\ analysis[r][category][subCategory] =
                                SumWholeWords(toLowerCase(entryContent),
                                    ANALYSIS_KEYWORDS[category][subCategory], 1)
              /\ entryContent = ExampleText =>
                    /\ analysis[r].feeling["Anxiety / Fear"] >= 2
                    /\ analysis[r].time["Present"] >= 1
        /\ Len(analysis) = 2 => analysis[2] = analysis[1]

C23_Witness ==
    /\ vpc = "done"
    /\ entryContent = ExampleText
    /\ Len(analysis) = 2
    /\ analysis[1].feeling["Anxiety / Fear"] = 2
    /\ analysis[1].feeling["Love / Affection"] = 0
    /\ analysis[2].time["Present"] = 2

(* Properties of WordCloud *)

\* the positions at which a token (a maximal run of word characters) starts
TokenStarts(t) ==
    {i \in 1..Len(t) : t[i] \in WordChars /\ (i = 1 \/ t[i - 1] \notin WordChars)}

RECURSIVE TokenEnd(_, _)
\* the last position of the token that covers position i
TokenEnd(t, i) ==
    IF i < Len(t) /\ t[i + 1] \in WordChars THEN TokenEnd(t, i + 1) ELSE i

TokenAt(t, i) == SubSeq(t, i, TokenEnd(t, i))

\* an alphabetic token of length >= 3 that is not a stop word
IsTerm(w) ==
    /\ Len(w) >= 3
    /\ \A k \in 1..Len(w) : w[k] \in Letters
    /\ w \notin STOP_WORDS

TermStarts(t) == {i \in TokenStarts(t) : IsTerm(TokenAt(t, i))}

Terms(t) == {TokenAt(t, i) : i \in TermStarts(t)}

Frequency(t, w) == Cardinality({i \in TermStarts(t) : TokenAt(t, i) = w})

FirstSeen(t, w) ==
    CHOOSE i \in TermStarts(t) :
        /\ TokenAt(t, i) = w
        /\ \A j \in TermStarts(t) : TokenAt(t, j) = w => i <= j

\* v ranks before w: more frequent, or as frequent and seen first
RanksBefore(t, v, w) ==
    \/ Frequency(t, v) > Frequency(t, w)
    \/ Frequency(t, v) = Frequency(t, w) /\ FirstSeen(t, v) < FirstSeen(t, w)

\* C24: the cloud keeps at most 50 terms, those of the highest frequency
\* among the alphabetic tokens of length >= 3 that are not stop words, by
\* descending count and first-seen order among equal counts; with all kept
\* counts equal every term has the midpoint weight, otherwise the top count
\* has the maximum weight and the lowest kept count the minimum.
C24_WordCloud ==
    vpc = "done" =>
        LET t == toLowerCase(cloudText)
            n == Len(words)
            kept == {words[i].word : i \in 1..n}
            all == Terms(t)
        IN /\ n <= 50
           /\ n = (IF Cardinality(all) < 50 THEN Cardinality(all) ELSE 50)
           /\ kept \subseteq all
           /\ \A i, j \in 1..n : i < j => RanksBefore(t, words[i].word, words[j].word)
           /\ \A w \in all \ kept : \A i \in 1..n : RanksBefore(t, words[i].word, w)
           /\ n > 0 =>
                 LET hi == Frequency(t, words[1].word)
                     lo == Frequency(t, words[n].word)
                 IN \A i \in 1..n :
                       LET f == words[i].fontSize
                           c == Frequency(t, words[i].word)
                       IN IF hi = lo
                          THEN 2 * f[1] = (minFontSize + maxFontSize) * f[2]
                          ELSE /\ c = hi => f[1] = maxFontSize * f[2]
                               /\ c = lo => f[1] = minFontSize * f[2]

\* more than 50 terms, the one seen last being the most frequent
C24_Witness ==
    /\ vpc = "done"
    /\ Len(words) = 50
    /\ Len(cloudText) = 4 * (TopWords + 3) - 1
    /\ words[1] = [word |-> NthWord(TopWords + 2), fontSize |-> <<36, 1>>]
    /\ words[2] = [word |-> NthWord(1), fontSize |-> <<16, 1>>]
    /\ words[50].word = NthWord(49)

(* Properties of the editor *)

\* C27: once no key has been pressed for longer than the autosave delay, for
\* every date that was typed under, the text typed last under it is the text
\* passed last to saveEntry for it.
C27_NoEditLost ==
    (typedAt >= 0 /\ nowMs - typedAt > AUTOSAVE_DELAY) =>
        \A d \in DateKeys : typed[d] # Null => passed[d] = typed[d]

\* C28: when every load has returned and no key has been pressed since the
\* latest selection, the textarea shows what the load of the selected date
\* returned; a keystroke made then edits that text.
C28_ShowsSelectedEntry ==
    /\ (reads = {} /\ edit.n # nSelects) => edText = loaded
    /\ edit.settled => edit.base = edit.loaded

(* Properties of overlapping saveEntry calls *)

\* the second of two saveEntry calls for one key began while the first was
\* pending, both have returned, and no later call saved the key
OverlappedPair(i, j) ==
    /\ j \in 1..Len(began)
    /\ i \in began[j].during
    /\ began[i].out # "pending"
    /\ began[j].out # "pending"
    /\ \A k \in (j + 1)..Len(began) : began[k].d # began[j].d

\* C29: after two overlapping saveEntry calls for one key have returned, the
\* cache holds the content of the second call; if both upserts succeeded the
\* remote row holds it too, and a later answered getEntry returns it.
C29_SecondSaveWins ==
    \A j \in 1..Len(began) : \A i \in 1..Len(began) :
        OverlappedPair(i, j) =>
            LET d == began[j].d
                bothOk == began[i].out = "ok" /\ began[j].out = "ok"
            IN /\ calls = began[j].at => local[d] = began[j].c
               /\ bothOk => \A r \in RowsFor(userEmail, d) : r.content = began[j].c
               /\ (/\ bothOk
                   /\ last.op = "get" /\ last.d = d /\ last.out = "ok"
                   /\ calls > began[i].doneAt /\ calls > began[j].doneAt)
                  => last.text = began[j].c

====
